---- MODULE Spec2Model ----
(***************************************************************************)
(* Model of src/review_pr.py: the AI pull-request reviewer.                *)
(*                                                                         *)
(* The script finds the latest open pull request, lists its modified       *)
(* files, asks a language model to review every file, posts the findings   *)
(* as inline comments and posts one summary comment.                       *)
(*                                                                         *)
(* Conventions of the model                                                *)
(*  - a text is a sequence of pieces, and "+" on texts is \o.  A text the  *)
(*    language model wrote is a sequence of one-character pieces, which is *)
(*    also what Python yields when it iterates over the string;            *)
(*  - a JSON value is a record [t, s, l]: t is its type, s its text when   *)
(*    it is a string, l its items when it is a list;                       *)
(*  - a JSON object inside a list (a finding) is a record whose fields are *)
(*    the keys it has; an item that is no object is [scalar |-> piece];    *)
(*  - the reply of the language model is a sequence of tokens: "{", "}",   *)
(*    a piece of prose, or one `"key": value` member of an object.         *)
(***************************************************************************)
EXTENDS Integers, Sequences, FiniteSets, TLC

VARIABLES
    pc,               \* position of the run in the __main__ block
    pr_num,           \* the pull request number, NonePr before it is known
    pr_branch,        \* the branch of the pull request
    modified_files,   \* the file objects of the pull request
    idx,              \* 1-based index of the file the loop is at
    ai_response,      \* review_code's local: the reply it parses (SpecExtract)
    ai_data,          \* the review of the current file
    inline,           \* the findings of the current file, all categories
    commit_id,        \* the commit the inline comments of the file refer to
    cidx,             \* 1-based index of the comment post_inline_comments is at
    aggregated_data,  \* the aggregated review
    calls,            \* every request sent so far, in order, with its outcome
    inline_requests,  \* the payloads posted to /pulls/{n}/comments, in order
    summary_posts,    \* the bodies posted to /issues/{n}/comments, in order
    merged,           \* history: the (path, review, commit) merged so far
    error             \* the exception that ended the run, "" when none

vars == <<pc, pr_num, pr_branch, modified_files, idx, ai_response, ai_data,
          inline, commit_id, cidx, aggregated_data, calls, inline_requests,
          summary_posts, merged, error>>

-----------------------------------------------------------------------------
(* Bounds of the model *)

MaxFiles == 2
MaxRawLen == 4

-----------------------------------------------------------------------------
(* Python values *)

None == "None"
NonePr == 0
PrNumber == 7

\* `not s` for a str | None
Falsy(s) == s = None \/ s = ""

RECURSIVE Concat(_)
Concat(ss) == IF ss = <<>> THEN <<>> ELSE Head(ss) \o Concat(Tail(ss))

SeqToSet(s) == { s[k] : k \in DOMAIN s }

JStr(s) == [t |-> "str", s |-> s, l |-> <<>>]
JNull == [t |-> "null", s |-> <<>>, l |-> <<>>]
JList(l) == [t |-> "list", s |-> <<>>, l |-> l]

\* whether Python can iterate over the value (list.extend raises TypeError otherwise)
Iterable(v) == v.t \in {"list", "str"}

\* the items Python yields when it iterates over the value
Items(v) ==
    IF v.t = "list" THEN v.l
    ELSE IF v.t = "str" THEN [k \in DOMAIN v.s |-> [scalar |-> v.s[k]]]
    ELSE <<>>

\* whether the item has .get, i.e. is a dict
IsDict(x) == "scalar" \notin DOMAIN x

CATEGORIES ==
    << "overall_review",
       "code_quality_and_best_practices",
       "readability_and_maintainability",
       "efficiency_and_performance_improvements",
       "security_vulnerabilities" >>

\* the categories the loops visit: `if cat == "overall_review": continue`
FindingCategories == SelectSeq(CATEGORIES, LAMBDA cat : cat # "overall_review")

-----------------------------------------------------------------------------
(* The reply of the language model and review_code *)

LB == [tok |-> "{", key |-> "", val |-> JNull]
RB == [tok |-> "}", key |-> "", val |-> JNull]
Prose == [tok |-> "prose", key |-> "", val |-> JNull]
Member(k, v) == [tok |-> "member", key |-> k, val |-> v]

\* findings the language model may write
F5 == [line |-> 5, comment |-> "c5"]
F3 == [line |-> 3, comment |-> "c3"]
FNoLine == [comment |-> "c0"]
FZero == [line |-> 0, comment |-> "cz"]
FNeg == [line |-> -1, comment |-> "cn"]
FEmpty == [line |-> 2, comment |-> ""]
FNoComment == [line |-> 4]

\* str.find / str.rfind: the 0-based index of the first / last such token, -1 if none
Find(raw, tok) ==
    LET hits == { k \in DOMAIN raw : raw[k] = tok }
    IN  IF hits = {} THEN -1
        ELSE (CHOOSE k \in hits : \A m \in hits : k <= m) - 1

RFind(raw, tok) ==
    LET hits == { k \in DOMAIN raw : raw[k] = tok }
    IN  IF hits = {} THEN -1
        ELSE (CHOOSE k \in hits : \A m \in hits : k >= m) - 1

\* raw[a:b] for 0 <= a, 0 <= b
Slice(raw, a, b) == SubSeq(raw, a + 1, b)

\* json.loads of the candidate: an object is "{", members, "}".  ok is FALSE
\* where json.loads raises JSONDecodeError.
JsonLoads(cand) ==
    LET n == Len(cand)
        wellFormed ==
            /\ n >= 2
            /\ cand[1] = LB
            /\ cand[n] = RB
            /\ \A k \in 2..(n - 1) : cand[k].tok = "member"
    IN  [ok |-> wellFormed,
         data |-> IF wellFormed THEN SubSeq(cand, 2, n - 1) ELSE <<>>]

\* dict.get(key, default) on a parsed object: the last member of that key wins
DictGet(data, key, default) ==
    LET hits == { k \in DOMAIN data : data[k].key = key }
    IN  IF hits = {} THEN default
        ELSE data[CHOOSE k \in hits : \A m \in hits : k >= m].val

\* what review_code returns from its except branch
FallbackReview ==
    [cat \in SeqToSet(CATEGORIES) |->
        IF cat = "overall_review"
        THEN JStr(<<"AI review could not be generated.">>)
        ELSE JList(<<>>)]

\* the normalisation loop of review_code
FinalData(data) ==
    [cat \in SeqToSet(CATEGORIES) |->
        IF cat = "overall_review"
        THEN DictGet(data, cat, JStr(<<>>))
        ELSE DictGet(data, cat, JList(<<>>))]

\* review_code that looks for the first "}" instead of the last
ParseReviewFirstBrace(raw) ==
    LET json_start == Find(raw, LB)
        json_end == Find(raw, RB)
    IN  IF json_start = -1 \/ json_end = -1
        THEN FallbackReview
        ELSE LET parsed == JsonLoads(Slice(raw, json_start, json_end + 1))
             IN  IF parsed.ok THEN FinalData(parsed.data) ELSE FallbackReview

\* review_code from the reply on: isolate the object, parse it, normalise it
ParseReview(raw) ==
    LET json_start == Find(raw, LB)
        json_end == RFind(raw, RB)
    IN  IF json_start = -1 \/ json_end = -1
        THEN FallbackReview
        ELSE LET parsed == JsonLoads(Slice(raw, json_start, json_end + 1))
             IN  IF parsed.ok THEN FinalData(parsed.data) ELSE FallbackReview

\* review_code: a reply is [failed, text]; failed is openai raising OpenAIError
ReviewCode(reply) ==
    IF reply.failed THEN FallbackReview ELSE ParseReview(reply.text)


-----------------------------------------------------------------------------
(* What the hosting API and the language model may answer *)

Paths == <<"a.py", "b.py", "c.py">>

Hunk(n) == [kind |-> "hunk", new_start |-> n]
Ctx == [kind |-> "context", new_start |-> 0]
Add == [kind |-> "added", new_start |-> 0]
Del == [kind |-> "removed", new_start |-> 0]

\* @@ -1,3 +1,4 @@ / context1 / +added1 / context2 / context3
ExamplePatch == <<Hunk(1), Ctx, Add, Ctx, Ctx>>
\* two hunks: new lines 1..2 and 4..5; new line 5 is the 7th body line
TwoHunkPatch == <<Hunk(1), Ctx, Del, Add, Hunk(4), Del, Del, Ctx, Add>>
EmptyPatch == <<>>

\* the "patch" field of the file object the API returns for a path
PatchOf(path) ==
    IF path = "a.py" THEN TwoHunkPatch
    ELSE IF path = "b.py" THEN EmptyPatch
    ELSE ExamplePatch

FileObject(path) == [filename |-> path, patch |-> PatchOf(path)]

\* the file lists the API may return: up to MaxFiles files, in path order
FileLists ==
    LET Pick(S) ==
            CHOOSE f \in [1..Cardinality(S) -> S] :
                \A a, b \in 1..Cardinality(S) : a < b => f[a] < f[b]
    IN  { [k \in 1..Cardinality(S) |-> FileObject(Paths[Pick(S)[k]])] :
            S \in { T \in SUBSET DOMAIN Paths : Cardinality(T) <= MaxFiles } }

Sha == "sha1"

OverallOk == Member("overall_review", JStr(<<"o", "k">>))
OverallNull == Member("overall_review", JNull)
SecOne == Member("security_vulnerabilities", JList(<<F5>>))
SecTwo == Member("security_vulnerabilities", JList(<<F3, F5>>))
SecNull == Member("security_vulnerabilities", JNull)
QualityOne == Member("code_quality_and_best_practices", JList(<<F5>>))
QualityInvalid ==
    Member("code_quality_and_best_practices",
           JList(<<FNoLine, FZero, FNeg, FEmpty, FNoComment>>))
ReadabilityText == Member("readability_and_maintainability", JStr(<<"n">>))
EfficiencyScalars ==
    Member("efficiency_and_performance_improvements", JList(<<[scalar |-> "x"]>>))
Unknown == Member("extra", JStr(<<"e">>))

\* the replies a run draws from: no object, truncated and reversed braces,
\* prose around the object, and objects of every shape review_code passes on
RunReplies ==
    { [failed |-> TRUE, text |-> <<>>] } \cup
    { [failed |-> FALSE, text |-> t] : t \in
        { <<>>,
          <<Prose>>,
          <<LB, SecOne>>,
          <<RB, Prose, LB>>,
          <<Prose, LB, RB, Prose>>,
          <<LB, OverallOk, SecOne, RB>>,
          <<Prose, LB, SecTwo, RB>>,
          <<LB, QualityOne, SecTwo, Unknown, RB>>,
          <<LB, QualityInvalid, RB>>,
          <<LB, SecNull, RB>>,
          <<LB, ReadabilityText, RB>>,
          <<LB, EfficiencyScalars, RB>>,
          <<LB, OverallNull, SecOne, RB>> } }

\* the replies review_code is checked on by itself: every token sequence up to
\* MaxRawLen over the braces, prose and these members
ExtractTokens ==
    { LB, RB, Prose, OverallOk, OverallNull, SecOne, SecNull, QualityInvalid,
      ReadabilityText, Unknown }

RawTexts == UNION { [1..n -> ExtractTokens] : n \in 0..MaxRawLen }


-----------------------------------------------------------------------------
(* The run: the __main__ block *)

Call(api, path, result) == [api |-> api, path |-> path, result |-> result]

\* step 4 of __main__
InitialAggregate ==
    [cat \in SeqToSet(CATEGORIES) |->
        IF cat = "overall_review"
        THEN JStr(<<"Summary across all files.">>)
        ELSE JList(<<>>)]

Init ==
    /\ pc = "start"
    /\ pr_num = NonePr
    /\ pr_branch = None
    /\ modified_files = <<>>
    /\ idx = 1
    /\ ai_response = <<>>
    /\ ai_data = FallbackReview
    /\ inline = <<>>
    /\ commit_id = None
    /\ cidx = 1
    /\ aggregated_data = InitialAggregate
    /\ calls = <<>>
    /\ inline_requests = <<>>
    /\ summary_posts = <<>>
    /\ merged = <<>>
    /\ error = ""

\* an uncaught exception ends the run
Raise(exc) ==
    /\ pc' = "crashed"
    /\ error' = exc

\* step 1: get_latest_pr_number, `if not pr_num: exit(0)`
GetLatestPrNumber ==
    /\ pc = "start"
    /\ \E result \in {"failed", "empty", "ok"} :
        /\ calls' = Append(calls, Call("pulls", "", result))
        /\ pr_num' = IF result = "ok" THEN PrNumber ELSE NonePr
    /\ pc' = IF pr_num' = NonePr THEN "exited" ELSE "branch"
    /\ UNCHANGED <<pr_branch, modified_files, idx, ai_response, ai_data, inline,
                   commit_id, cidx, aggregated_data, inline_requests,
                   summary_posts, merged, error>>

\* step 2: get_pr_branch, `if not pr_branch: exit(0)`
GetPrBranch ==
    /\ pc = "branch"
    /\ \E result \in {"failed", "empty", "ok"} :
        /\ calls' = Append(calls, Call("pull", "", result))
        /\ pr_branch' = IF result = "ok" THEN "feature" ELSE None
    /\ pc' = IF Falsy(pr_branch') THEN "exited" ELSE "files"
    /\ UNCHANGED <<pr_num, modified_files, idx, ai_response, ai_data, inline,
                   commit_id, cidx, aggregated_data, inline_requests,
                   summary_posts, merged, error>>

\* get_modified_files without the `if not modified_files: exit(0)` check
GetModifiedFilesNoExit ==
    /\ pc = "files"
    /\ \E result \in {"failed", "ok"} :
        \E files \in FileLists :
            /\ result = "failed" => files = <<>>
            /\ calls' = Append(calls,
                    Call("files", "",
                         IF result = "failed" THEN "failed"
                         ELSE IF files = <<>> THEN "empty" ELSE "ok"))
            /\ modified_files' = files
    /\ pc' = "loop"
    /\ idx' = 1
    /\ aggregated_data' = InitialAggregate
    /\ UNCHANGED <<pr_num, pr_branch, ai_response, ai_data, inline, commit_id,
                   cidx, inline_requests, summary_posts, merged, error>>

\* steps 3 and 4: get_modified_files, `if not modified_files: exit(0)`, then
\* the aggregate is initialised
GetModifiedFiles ==
    /\ pc = "files"
    /\ \E result \in {"failed", "ok"} :
        \E files \in FileLists :
            /\ result = "failed" => files = <<>>
            /\ calls' = Append(calls,
                    Call("files", "",
                         IF result = "failed" THEN "failed"
                         ELSE IF files = <<>> THEN "empty" ELSE "ok"))
            /\ modified_files' = files
    /\ pc' = IF modified_files' = <<>> THEN "exited" ELSE "loop"
    /\ idx' = 1
    /\ aggregated_data' = InitialAggregate
    /\ UNCHANGED <<pr_num, pr_branch, ai_response, ai_data, inline, commit_id,
                   cidx, inline_requests, summary_posts, merged, error>>

file_path == modified_files[idx].filename

\* get_file_content whose failure ends the loop instead of skipping the file
GetFileContentFatal ==
    /\ pc = "loop"
    /\ idx <= Len(modified_files)
    /\ \E result \in {"failed", "empty", "undecodable", "ok"} :
        /\ calls' = Append(calls, Call("contents", modified_files[idx].filename, result))
        /\ IF result = "undecodable"
           THEN Raise("UnicodeDecodeError") /\ idx' = idx
           ELSE IF result = "ok"
           THEN pc' = "review" /\ idx' = idx /\ error' = error
           ELSE pc' = "loop" /\ idx' = Len(modified_files) + 1 /\ error' = error
    /\ UNCHANGED <<pr_num, pr_branch, modified_files, ai_response, ai_data,
                   inline, commit_id, cidx, aggregated_data, inline_requests,
                   summary_posts, merged>>

\* step 5, head of the loop body: get_file_content, `if not content: continue`.
\* "failed" is a RequestException (None), "empty" an empty file, "undecodable"
\* content that is no UTF-8, which .decode raises on outside the except clause.
GetFileContent ==
    /\ pc = "loop"
    /\ idx <= Len(modified_files)
    /\ \E result \in {"failed", "empty", "undecodable", "ok"} :
        /\ calls' = Append(calls, Call("contents", file_path, result))
        /\ IF result = "undecodable"
           THEN Raise("UnicodeDecodeError") /\ idx' = idx
           ELSE IF result = "ok"
           THEN pc' = "review" /\ idx' = idx /\ error' = error
           ELSE pc' = "loop" /\ idx' = idx + 1 /\ error' = error
    /\ UNCHANGED <<pr_num, pr_branch, modified_files, ai_response, ai_data,
                   inline, commit_id, cidx, aggregated_data, inline_requests,
                   summary_posts, merged>>

\* the `inline` list of the loop body: every category's value, extended in turn
InlineOf(data) ==
    Concat([k \in DOMAIN FindingCategories |-> Items(data[FindingCategories[k]])])

\* step 5: review_code, then the building of `inline`; list.extend raises
\* TypeError on a value that is not iterable
ReviewFile ==
    /\ pc = "review"
    /\ \E reply \in RunReplies :
        /\ ai_data' = ReviewCode(reply)
        /\ calls' = Append(calls,
                Call("openai", file_path, IF reply.failed THEN "failed" ELSE "ok"))
    /\ IF \A k \in DOMAIN FindingCategories : Iterable(ai_data'[FindingCategories[k]])
       THEN /\ inline' = InlineOf(ai_data')
            /\ pc' = "inline"
            /\ error' = error
       ELSE /\ inline' = inline
            /\ Raise("TypeError")
    /\ UNCHANGED <<pr_num, pr_branch, modified_files, idx, ai_response,
                   commit_id, cidx, aggregated_data, inline_requests,
                   summary_posts, merged>>

\* post_inline_comments, its head: get_latest_commit_sha and
\* `if not commit_id or not comments: return`
PostInlineStart ==
    /\ pc = "inline"
    /\ \E result \in {"failed", "empty", "ok"} :
        /\ calls' = Append(calls, Call("commits", file_path, result))
        /\ commit_id' = IF result = "ok" THEN Sha ELSE None
    /\ pc' = IF Falsy(commit_id') \/ inline = <<>> THEN "merge" ELSE "post"
    /\ cidx' = 1
    /\ UNCHANGED <<pr_num, pr_branch, modified_files, idx, ai_response, ai_data,
                   inline, aggregated_data, inline_requests, summary_posts,
                   merged, error>>

\* a line test that only asks whether the key is there
LineMissing(comment) == "line" \notin DOMAIN comment

\* comment.get("line"): falsy when the key is missing or the line is 0
LineFalsy(comment) == "line" \notin DOMAIN comment \/ comment.line = 0

\* comment.get("comment", ""): falsy when the key is missing or the text empty
CommentFalsy(comment) == "comment" \notin DOMAIN comment \/ comment.comment = ""

\* a payload that sends the 0-based line
PayloadZeroBased(comment) ==
    [body |-> comment.comment,
     commit_id |-> commit_id,
     path |-> file_path,
     side |-> "RIGHT",
     line |-> comment.line - 1]

Payload(comment) ==
    [body |-> comment.comment,
     commit_id |-> commit_id,
     path |-> file_path,
     side |-> "RIGHT",
     line |-> comment.line]

\* post_inline_comments that gives up on the file at the first failed post
PostInlineStepStopsOnFailure ==
    /\ pc = "post"
    /\ cidx <= Len(inline)
    /\ LET comment == inline[cidx]
       IN  IF ~IsDict(comment)
           THEN /\ Raise("AttributeError")
                /\ UNCHANGED <<cidx, calls, inline_requests>>
           ELSE /\ cidx' = cidx + 1
                /\ error' = error
                /\ IF LineFalsy(comment) \/ CommentFalsy(comment)
                   THEN /\ UNCHANGED <<calls, inline_requests>>
                        /\ pc' = IF cidx' > Len(inline) THEN "merge" ELSE "post"
                   ELSE \E result \in {"failed", "ok"} :
                           /\ inline_requests' =
                                  Append(inline_requests, Payload(comment))
                           /\ calls' = Append(calls,
                                  Call("comment", file_path, result))
                           /\ pc' = IF cidx' > Len(inline) \/ result = "failed"
                                    THEN "merge" ELSE "post"
    /\ UNCHANGED <<pr_num, pr_branch, modified_files, idx, ai_response, ai_data,
                   inline, commit_id, aggregated_data, summary_posts, merged>>

\* post_inline_comments, one turn of its loop: .get on an item that is no
\* dict raises AttributeError; an invalid comment is skipped; the others are
\* posted, and a failed post is logged only
PostInlineStep ==
    /\ pc = "post"
    /\ cidx <= Len(inline)
    /\ LET comment == inline[cidx]
       IN  IF ~IsDict(comment)
           THEN /\ Raise("AttributeError")
                /\ UNCHANGED <<cidx, calls, inline_requests>>
           ELSE /\ cidx' = cidx + 1
                /\ pc' = IF cidx' > Len(inline) THEN "merge" ELSE "post"
                /\ error' = error
                /\ IF LineFalsy(comment) \/ CommentFalsy(comment)
                   THEN UNCHANGED <<calls, inline_requests>>
                   ELSE \E result \in {"failed", "ok"} :
                           /\ inline_requests' =
                                  Append(inline_requests, Payload(comment))
                           /\ calls' = Append(calls,
                                  Call("comment", file_path, result))
    /\ UNCHANGED <<pr_num, pr_branch, modified_files, idx, ai_response, ai_data,
                   inline, commit_id, aggregated_data, summary_posts, merged>>

\* a merge that adds a finding only when the aggregate does not hold it yet
MergeReviewDedup ==
    /\ pc = "merge"
    /\ IF ai_data["overall_review"].t # "str"
       THEN /\ Raise("TypeError")
            /\ UNCHANGED <<idx, aggregated_data, merged>>
       ELSE /\ aggregated_data' =
                [cat \in SeqToSet(CATEGORIES) |->
                    IF cat = "overall_review"
                    THEN JStr(aggregated_data[cat].s \o <<"\n">>
                              \o ai_data[cat].s \o <<" (in ", file_path, ")">>)
                    ELSE JList(aggregated_data[cat].l \o
                               SelectSeq(Items(ai_data[cat]),
                                   LAMBDA x : x \notin SeqToSet(aggregated_data[cat].l)))]
            /\ merged' = Append(merged,
                    [path |-> file_path, data |-> ai_data, commit_id |-> commit_id])
            /\ idx' = idx + 1
            /\ pc' = "loop"
            /\ error' = error
    /\ UNCHANGED <<pr_num, pr_branch, modified_files, ai_response, ai_data,
                   inline, commit_id, cidx, calls, inline_requests,
                   summary_posts>>

\* the merge at the end of the loop body; "\n" + x raises TypeError when the
\* overall_review is no str
MergeReview ==
    /\ pc = "merge"
    /\ IF ai_data["overall_review"].t # "str"
       THEN /\ Raise("TypeError")
            /\ UNCHANGED <<idx, aggregated_data, merged>>
       ELSE /\ aggregated_data' =
                [cat \in SeqToSet(CATEGORIES) |->
                    IF cat = "overall_review"
                    THEN JStr(aggregated_data[cat].s \o <<"\n">>
                              \o ai_data[cat].s \o <<" (in ", file_path, ")">>)
                    ELSE JList(aggregated_data[cat].l \o Items(ai_data[cat]))]
            /\ merged' = Append(merged,
                    [path |-> file_path, data |-> ai_data, commit_id |-> commit_id])
            /\ idx' = idx + 1
            /\ pc' = "loop"
            /\ error' = error
    /\ UNCHANGED <<pr_num, pr_branch, modified_files, ai_response, ai_data,
                   inline, commit_id, cidx, calls, inline_requests,
                   summary_posts>>

\* cat.replace("_", " ").title()
NiceCatName(cat) ==
    IF cat = "code_quality_and_best_practices" THEN "Code Quality And Best Practices"
    ELSE IF cat = "readability_and_maintainability" THEN "Readability And Maintainability"
    ELSE IF cat = "efficiency_and_performance_improvements"
    THEN "Efficiency And Performance Improvements"
    ELSE "Security Vulnerabilities"

\* one entry of a category section: cobj.get("line", "N/A"), cobj.get("comment", "")
EntryLine(cobj) ==
    << "- **Line ",
       IF "line" \in DOMAIN cobj THEN ToString(cobj.line) ELSE "N/A",
       "**: ",
       IF "comment" \in DOMAIN cobj THEN cobj.comment ELSE "",
       "\n" >>

\* a section that is written even when the list is empty
SectionAlways(all_data, cat) ==
    <<"### ", NiceCatName(cat), "\n">>
    \o Concat([k \in DOMAIN all_data[cat].l |-> EntryLine(all_data[cat].l[k])])
    \o <<"\n">>

\* the section of a category: nothing when its list is empty
Section(all_data, cat) ==
    IF all_data[cat].l = <<>> THEN <<>>
    ELSE <<"### ", NiceCatName(cat), "\n">>
         \o Concat([k \in DOMAIN all_data[cat].l |-> EntryLine(all_data[cat].l[k])])
         \o <<"\n">>

\* the body post_pr_comment builds (the heading is written without its emoji)
RenderBody(all_data) ==
    <<"## Overall AI Review\n">> \o all_data["overall_review"].s \o <<"\n\n">>
    \o Concat([k \in DOMAIN FindingCategories |->
                  Section(all_data, FindingCategories[k])])

\* step 6: post_pr_comment once the loop is over; .get on an aggregated item
\* that is no dict raises AttributeError; a failed post is logged only
PostPrComment ==
    /\ pc = "loop"
    /\ idx > Len(modified_files)
    /\ IF \E k \in DOMAIN FindingCategories :
            \E n \in DOMAIN aggregated_data[FindingCategories[k]].l :
                ~IsDict(aggregated_data[FindingCategories[k]].l[n])
       THEN /\ Raise("AttributeError")
            /\ UNCHANGED <<calls, summary_posts>>
       ELSE /\ \E result \in {"failed", "ok"} :
                /\ summary_posts' = Append(summary_posts, RenderBody(aggregated_data))
                /\ calls' = Append(calls, Call("issue_comment", "", result))
            /\ pc' = "done"
            /\ error' = error
    /\ UNCHANGED <<pr_num, pr_branch, modified_files, idx, ai_response, ai_data,
                   inline, commit_id, cidx, aggregated_data, inline_requests,
                   merged>>

Next ==
    \/ GetLatestPrNumber
    \/ GetPrBranch
    \/ GetModifiedFiles
    \/ GetFileContent
    \/ ReviewFile
    \/ PostInlineStart
    \/ PostInlineStep
    \/ MergeReview
    \/ PostPrComment

Spec == Init /\ [][Next]_vars

-----------------------------------------------------------------------------
(* review_code by itself, on every reply up to MaxRawLen tokens *)

InitExtract ==
    /\ pc = "call"
    /\ ai_response \in RawTexts
    /\ pr_num = NonePr
    /\ pr_branch = None
    /\ modified_files = <<>>
    /\ idx = 1
    /\ ai_data = FallbackReview
    /\ inline = <<>>
    /\ commit_id = None
    /\ cidx = 1
    /\ aggregated_data = InitialAggregate
    /\ calls = <<>>
    /\ inline_requests = <<>>
    /\ summary_posts = <<>>
    /\ merged = <<>>
    /\ error = ""

\* review_code on a reply the completion returned
ReviewCodeReturns ==
    /\ pc = "call"
    /\ ai_data' = ReviewCode([failed |-> FALSE, text |-> ai_response])
    /\ pc' = "returned"
    /\ UNCHANGED <<pr_num, pr_branch, modified_files, idx, ai_response, inline,
                   commit_id, cidx, aggregated_data, calls, inline_requests,
                   summary_posts, merged, error>>

NextExtract == ReviewCodeReturns

SpecExtract == InitExtract /\ [][NextExtract]_vars


-----------------------------------------------------------------------------
(* Diff-position resolution as the specification describes it (section 4.1). *)
(* review_pr.py has no such step: post_inline_comments sends the line itself. *)

Unresolved == -1

RECURSIVE Walk(_, _, _, _, _, _)
Walk(patch, k, diff_position, new_line_cursor, in_hunk, target_new_line) ==
    IF k > Len(patch) THEN Unresolved
    ELSE IF patch[k].kind = "hunk"
    THEN Walk(patch, k + 1, diff_position, patch[k].new_start, TRUE, target_new_line)
    ELSE IF ~in_hunk
    THEN Walk(patch, k + 1, diff_position, new_line_cursor, FALSE, target_new_line)
    ELSE IF patch[k].kind = "removed"
    THEN Walk(patch, k + 1, diff_position + 1, new_line_cursor, TRUE, target_new_line)
    ELSE IF new_line_cursor = target_new_line
    THEN diff_position + 1
    ELSE Walk(patch, k + 1, diff_position + 1, new_line_cursor + 1, TRUE,
              target_new_line)

Resolve(patch_text, target_new_line) ==
    Walk(patch_text, 1, 0, 0, FALSE, target_new_line)

-----------------------------------------------------------------------------
(* C1 *)

UpstreamFetch(call) == call.api \in {"pulls", "pull", "files"}

\* C1: a run whose latest-PR fetch, branch fetch or file-list fetch failed or
\* came back empty has exited, and that fetch is the last request it ever sent:
\* no inline comment, no summary, no content fetch and no model review follow.
C1_AbortSendsNothing ==
    \A k \in DOMAIN calls :
        (UpstreamFetch(calls[k]) /\ calls[k].result # "ok") =>
            /\ k = Len(calls)
            /\ pc = "exited"
            /\ inline_requests = <<>>
            /\ summary_posts = <<>>
            /\ \A n \in DOMAIN calls : UpstreamFetch(calls[n])

C1_Witness ==
    /\ pc = "exited"
    /\ Len(calls) = 3
    /\ calls[3] = Call("files", "", "empty")

-----------------------------------------------------------------------------
(* C2 *)

\* C2: once the file list is non-empty, a run whose content fetches each
\* succeeded, failed or came back empty is never ended by an exception, whatever
\* the model replied, and a run that is done has posted the summary exactly
\* once, as its last request.
C2_NoFailureEscapes ==
    (modified_files # <<>> /\ \A k \in DOMAIN calls : calls[k].result # "undecodable") =>
        /\ pc # "crashed"
        /\ pc = "done" =>
            /\ Len(summary_posts) = 1
            /\ calls[Len(calls)].api = "issue_comment"

-----------------------------------------------------------------------------
(* C3 *)

PositionOf(path) == CHOOSE k \in DOMAIN modified_files : modified_files[k].filename = path

-----------------------------------------------------------------------------
(* C4, C5: review_code by itself *)

\* C4: whatever the reply, the review that review_code returns is
\* schema-complete: its overall_review is a text and each of the four finding
\* categories is a list whose items are finding objects.
C4_ExtractionSchemaComplete ==
    pc = "returned" =>
        /\ DOMAIN ai_data = SeqToSet(CATEGORIES)
        /\ ai_data["overall_review"].t = "str"
        /\ \A k \in DOMAIN FindingCategories :
            /\ ai_data[FindingCategories[k]].t = "list"
            /\ \A n \in DOMAIN ai_data[FindingCategories[k]].l :
                IsDict(ai_data[FindingCategories[k]].l[n])

\* the reply holds no "{" or no "}"
NoObject(raw) ==
    \/ \A k \in DOMAIN raw : raw[k] # LB
    \/ \A k \in DOMAIN raw : raw[k] # RB

\* the text from the first "{" to the last "}" is no JSON object
NotAnObject(raw) ==
    \E a, b \in DOMAIN raw :
        /\ raw[a] = LB /\ \A k \in 1..(a - 1) : raw[k] # LB
        /\ raw[b] = RB /\ \A k \in (b + 1)..Len(raw) : raw[k] # RB
        /\ \/ b < a
           \/ \E k \in (a + 1)..(b - 1) : raw[k].tok # "member"

ExtractionFails(raw) == NoObject(raw) \/ NotAnObject(raw)

AllCategoriesEmpty(data) ==
    \A k \in DOMAIN FindingCategories : data[FindingCategories[k]] = JList(<<>>)

\* C5 as the specification states it: when isolation or parsing fails the
\* review is the fallback whose overall_review is "AI response could not be
\* parsed." with every category empty.
C5_FallbackAsSpecified ==
    (pc = "returned" /\ ExtractionFails(ai_response)) =>
        /\ ai_data["overall_review"] = JStr(<<"AI response could not be parsed.">>)
        /\ AllCategoriesEmpty(ai_data)

\* C5, amended: when isolation or parsing fails the review is the fallback
\* whose overall_review is "AI review could not be generated." with every
\* category empty.
C5_FallbackAsCoded ==
    (pc = "returned" /\ ExtractionFails(ai_response)) =>
        /\ ai_data["overall_review"] = JStr(<<"AI review could not be generated.">>)
        /\ AllCategoriesEmpty(ai_data)

C5_Witness ==
    /\ pc = "returned"
    /\ ai_response = <<LB, SecOne, RB, RB>>
    /\ ai_data["security_vulnerabilities"] = JList(<<>>)

-----------------------------------------------------------------------------
(* C6 *)

\* a finding the specification calls invalid
InvalidFinding(x) ==
    \/ ~IsDict(x)
    \/ "line" \notin DOMAIN x
    \/ x.line <= 0
    \/ "comment" \notin DOMAIN x
    \/ x.comment = ""

\* C6 as the specification states it: no invalid finding is in a review that
\* review_code returned, in the aggregated lists or in an inline comment.
C6_InvalidNeverPropagated ==
    /\ \A k \in DOMAIN FindingCategories :
        /\ \A n \in DOMAIN Items(ai_data[FindingCategories[k]]) :
            ~InvalidFinding(Items(ai_data[FindingCategories[k]])[n])
        /\ \A n \in DOMAIN aggregated_data[FindingCategories[k]].l :
            ~InvalidFinding(aggregated_data[FindingCategories[k]].l[n])
    /\ \A n \in DOMAIN inline_requests :
        inline_requests[n].line > 0 /\ inline_requests[n].body # ""

\* the findings of the current file that post_inline_comments has been through
Visited ==
    IF pc = "post" THEN SubSeq(inline, 1, cidx - 1)
    ELSE IF pc = "merge" /\ ~Falsy(commit_id) THEN inline
    ELSE <<>>

\* C6, amended: no inline comment is sent for a finding whose line is missing
\* or 0 or whose comment is missing or empty, while one is sent for a finding
\* with a negative line; no finding is discarded before that: every item of a
\* merged review, valid or not, is in the aggregated list of its category.
C6_InvalidSkippedInlineOnly ==
    /\ \A n \in DOMAIN inline_requests :
        inline_requests[n].line # 0 /\ inline_requests[n].body # ""
    /\ \A n \in DOMAIN Visited :
        LET x == Visited[n]
            sent == \E r \in DOMAIN inline_requests :
                        /\ inline_requests[r].path = file_path
                        /\ inline_requests[r].body = x.comment
                        /\ inline_requests[r].line = x.line
        IN  IF "line" \in DOMAIN x /\ "comment" \in DOMAIN x
            THEN sent <=> (x.line # 0 /\ x.comment # "")
            ELSE \A r \in DOMAIN inline_requests :
                    inline_requests[r].path = file_path =>
                        /\ "comment" \in DOMAIN x => inline_requests[r].body # x.comment
                        /\ "line" \in DOMAIN x => inline_requests[r].line # x.line
    /\ \A m \in DOMAIN merged :
        \A k \in DOMAIN FindingCategories :
            \A n \in DOMAIN Items(merged[m].data[FindingCategories[k]]) :
                \E a \in DOMAIN aggregated_data[FindingCategories[k]].l :
                    aggregated_data[FindingCategories[k]].l[a] =
                        Items(merged[m].data[FindingCategories[k]])[n]

C6_Witness ==
    /\ pc = "done"
    /\ Len(merged) = 1
    /\ merged[1].data["code_quality_and_best_practices"].l =
           <<FNoLine, FZero, FNeg, FEmpty, FNoComment>>
    /\ Len(inline_requests) = 1
    /\ inline_requests[1].line = -1
    /\ aggregated_data["code_quality_and_best_practices"].l[1] = FNoLine


-----------------------------------------------------------------------------
(* C7 *)

\* the items of a category over the merged reviews, file after file
MergedItems(cat) == Concat([m \in DOMAIN merged |-> Items(merged[m].data[cat])])

\* the same, each item paired with the path of its file
MergedPairs(cat) ==
    Concat([m \in DOMAIN merged |->
        [n \in DOMAIN Items(merged[m].data[cat]) |->
            [path |-> merged[m].path, finding |-> Items(merged[m].data[cat])[n]]]])

\* the overall_review of every merged review, tagged with its path, in order
MergedOverall ==
    Concat([m \in DOMAIN merged |->
        <<"\n">> \o merged[m].data["overall_review"].s
            \o <<" (in ", merged[m].path, ")">>])

\* C7 as the specification states it: each aggregated category list is the
\* concatenation, in processing order, of the (path, Finding) pairs of the
\* processed files, and the overall summary holds every overall_review tagged
\* with its path in that order.
C7_ConcatenationOfPairs ==
    /\ \A k \in DOMAIN FindingCategories :
        aggregated_data[FindingCategories[k]].l = MergedPairs(FindingCategories[k])
    /\ aggregated_data["overall_review"].s =
           <<"Summary across all files.">> \o MergedOverall

\* C7, amended: each aggregated category list is the concatenation, in
\* processing order, of the findings themselves (no path attached) of the
\* processed files, nothing reordered, dropped or deduplicated, and the overall
\* summary holds every overall_review tagged with its path in that order.
C7_ConcatenationOfFindings ==
    /\ \A k \in DOMAIN FindingCategories :
        aggregated_data[FindingCategories[k]].l = MergedItems(FindingCategories[k])
    /\ aggregated_data["overall_review"].s =
           <<"Summary across all files.">> \o MergedOverall

C7_Witness ==
    /\ Len(merged) = 2
    /\ merged[1].data["security_vulnerabilities"].l = <<F3, F5>>
    /\ merged[2].data["security_vulnerabilities"].l = <<F5>>
    /\ aggregated_data["security_vulnerabilities"].l = <<F3, F5, F5>>

-----------------------------------------------------------------------------
(* C8 *)

\* an entry as the specification words it: path:line -- comment
EntryWithPath(path, cobj) ==
    << path, ":",
       IF "line" \in DOMAIN cobj THEN ToString(cobj.line) ELSE "N/A",
       " -- ",
       IF "comment" \in DOMAIN cobj THEN cobj.comment ELSE "",
       "\n" >>

\* an entry as the posted summaries show it: - **Line line**: comment
EntryWithoutPath(path, cobj) ==
    << "- **Line ",
       IF "line" \in DOMAIN cobj THEN ToString(cobj.line) ELSE "N/A",
       "**: ",
       IF "comment" \in DOMAIN cobj THEN cobj.comment ELSE "",
       "\n" >>

\* the document the claim describes, built from the merged reviews: the overall
\* section, then for each category with a finding, in declaration order, its
\* heading and its entries, file after file
ExpectedSummary(Entry(_, _)) ==
    LET entries(cat) ==
            Concat([m \in DOMAIN merged |->
                Concat([n \in DOMAIN Items(merged[m].data[cat]) |->
                    Entry(merged[m].path, Items(merged[m].data[cat])[n])])])
        section(cat) ==
            IF \A m \in DOMAIN merged : Items(merged[m].data[cat]) = <<>>
            THEN <<>>
            ELSE <<"### ", NiceCatName(cat), "\n">> \o entries(cat) \o <<"\n">>
    IN  <<"## Overall AI Review\n", "Summary across all files.">>
        \o MergedOverall \o <<"\n\n">>
        \o section("code_quality_and_best_practices")
        \o section("readability_and_maintainability")
        \o section("efficiency_and_performance_improvements")
        \o section("security_vulnerabilities")

\* C8 as the specification states it: the posted summary is the overall
\* section, then one section per category with a finding, in declaration
\* order, whose entries read path:line -- comment in insertion order; a
\* category without finding has no section and keeps its empty list.
C8_SummaryWithPaths ==
    \A k \in DOMAIN summary_posts :
        /\ summary_posts[k] = ExpectedSummary(EntryWithPath)
        /\ \A c \in DOMAIN FindingCategories :
            aggregated_data[FindingCategories[c]].t = "list"

\* C8, amended: the same document, except that an entry reads
\* - **Line line**: comment and does not name the path of its file.
C8_SummaryWithoutPaths ==
    \A k \in DOMAIN summary_posts :
        /\ summary_posts[k] = ExpectedSummary(EntryWithoutPath)
        /\ \A c \in DOMAIN FindingCategories :
            aggregated_data[FindingCategories[c]].t = "list"

C8_Witness ==
    /\ pc = "done"
    /\ Len(merged) = 2
    /\ aggregated_data["code_quality_and_best_practices"].l = <<F5>>
    /\ aggregated_data["readability_and_maintainability"].l = <<>>
    /\ aggregated_data["security_vulnerabilities"].l = <<F3, F5, F5>>
    /\ Len(summary_posts) = 1
    /\ \A n \in DOMAIN summary_posts[1] :
        summary_posts[1][n] # "Readability And Maintainability"
    /\ \E n \in DOMAIN summary_posts[1] :
        summary_posts[1][n] = "Security Vulnerabilities"

-----------------------------------------------------------------------------
(* C9, C10 *)

\* the findings the model wrote for a path: those of its merged review, or of
\* the review in hand while the file is being processed
FindingsOf(path) ==
    IF \E m \in DOMAIN merged : merged[m].path = path
    THEN InlineOf(merged[CHOOSE m \in DOMAIN merged : merged[m].path = path].data)
    ELSE inline

\* C9 as the specification states it: an inline comment is anchored at the
\* diff position that the patch of its file gives to the line of its finding
\* (2 for line 2 of the example patch; none for an empty patch or a line that
\* is only removed).
C9_AnchoredAtDiffPosition ==
    /\ Resolve(ExamplePatch, 2) = 2
    /\ Resolve(EmptyPatch, 2) = Unresolved
    /\ Resolve(<<Hunk(1), Ctx, Del>>, 2) = Unresolved
    /\ \A n \in DOMAIN inline_requests :
        LET r == inline_requests[n]
            position == Resolve(PatchOf(r.path), r.line)
        IN  position # Unresolved => r.line = position

\* C9, amended: an inline comment is anchored at the new-file line of its
\* finding itself, sent as `line` with side RIGHT and the latest commit of the
\* pull request, with the comment of the finding as its body; the patch is not
\* consulted.
C9_AnchoredAtLine ==
    \A n \in DOMAIN inline_requests :
        LET r == inline_requests[n]
        IN  /\ r.side = "RIGHT"
            /\ r.commit_id = Sha
            /\ \E k \in DOMAIN FindingsOf(r.path) :
                LET x == FindingsOf(r.path)[k]
                IN  /\ IsDict(x)
                    /\ "line" \in DOMAIN x /\ x.line = r.line
                    /\ "comment" \in DOMAIN x /\ x.comment = r.body

C9_Witness ==
    /\ Len(inline_requests) = 2
    /\ inline_requests[1].path = "a.py" /\ inline_requests[1].line = 5
    /\ Resolve(PatchOf("a.py"), 5) = 7
    /\ inline_requests[2].path = "c.py" /\ inline_requests[2].line = 5
    /\ Resolve(PatchOf("c.py"), 5) = Unresolved

\* the inline comments sent for a path, in order
RequestsFor(path) == SelectSeq(inline_requests, LAMBDA r : r.path = path)

\* the inline comments a list of findings asks for: one per finding with a
\* line other than 0 and a comment other than ""
Postable(x) ==
    /\ "line" \in DOMAIN x /\ x.line # 0
    /\ "comment" \in DOMAIN x /\ x.comment # ""

ExpectedRequests(path, findings, sha) ==
    LET kept == SelectSeq(findings, Postable)
    IN  [k \in DOMAIN kept |->
            [body |-> kept[k].comment, commit_id |-> sha, path |-> path,
             side |-> "RIGHT", line |-> kept[k].line]]

\* C10 as the specification states it: no inline comment request is issued
\* for a finding whose line the patch of its file does not map.
C10_UnmappableNotRequested ==
    \A n \in DOMAIN inline_requests :
        Resolve(PatchOf(inline_requests[n].path), inline_requests[n].line) # Unresolved

\* C10, amended: a finding is not dropped for being unmappable.  For a merged
\* file whose commit was found, the inline comments requested are, in order,
\* those of all its findings with a line other than 0 and a non-empty comment,
\* mappable or not, whether or not the host accepted each; for a merged file
\* whose commit was not found, none; and the overall summary names the path of
\* every merged file.
C10_NoFindingDroppedForPosition ==
    \A m \in DOMAIN merged :
        /\ RequestsFor(merged[m].path) =
               IF Falsy(merged[m].commit_id) THEN <<>>
               ELSE ExpectedRequests(merged[m].path, InlineOf(merged[m].data),
                                     merged[m].commit_id)
        /\ \E n \in DOMAIN aggregated_data["overall_review"].s :
               aggregated_data["overall_review"].s[n] = merged[m].path
        /\ \A k \in DOMAIN summary_posts :
               \E n \in DOMAIN summary_posts[k] : summary_posts[k][n] = merged[m].path

C10_Witness ==
    /\ pc = "done"
    /\ Len(merged) = 2
    /\ merged[1].path = "a.py"
    /\ merged[1].data["security_vulnerabilities"].l = <<F3, F5>>
    /\ Resolve(PatchOf("a.py"), 3) = Unresolved
    /\ merged[2].path = "b.py"
    /\ merged[2].data = FallbackReview
    /\ Len(inline_requests) = 2
    /\ inline_requests[1].path = "a.py" /\ inline_requests[1].line = 3
    /\ inline_requests[2].path = "a.py" /\ inline_requests[2].line = 5
    /\ calls[7] = Call("comment", "a.py", "failed")
    /\ \E n \in DOMAIN summary_posts[1] : summary_posts[1][n] = "a.py"
    /\ \E n \in DOMAIN summary_posts[1] : summary_posts[1][n] = "b.py"

====
